---- MODULE Spec2Model ----
(***************************************************************************)
(* Request handling of the two Flask servers of arpavibe:                  *)
(*   src/app.py                      (route /convert)                      *)
(*   src/youtube_converter_server.py (routes /ping, /convert, /info)       *)
(* A request is handled by one handler invocation; the server may run      *)
(* several handlers concurrently.  A handler blocks in the yt-dlp call, so *)
(* each convert/info handler is split at that call: *_Begin runs the code  *)
(* up to the call, *_Finish runs the call's outcome and the rest of the    *)
(* handler, 'finally' block included.  Transmit is the WSGI server sending *)
(* the returned response to the client after the handler has returned.     *)
(***************************************************************************)
EXTENDS Integers, Sequences, FiniteSets, TLC

\* ---------------------------------------------------------------- bounds
MaxReq == 2      \* requests handled (concurrently) in one behaviour

Req == 1..MaxReq
\* uuid.uuid4() draws from a pool that is never exhausted
UuidPool == 1..MaxReq

\* ------------------------------------------------------- Python values
PyNone == "<None>"
Keys == {"id", "title", "uploader", "duration", "thumbnail"}

\* A decoded request body.  t: Python type of the value ("none": no JSON
\* body), n: value of an int, s: value of a str, items: elements of a list
\* or keys of a dict, url: the dict's value under 'url'.
Body(t, n, s, items, url) == [t |-> t, n |-> n, s |-> s, items |-> items, url |-> url]

Bodies ==
  { Body("none", 0, "", {}, PyNone),          \* no body
    Body("int", 5, "", {}, PyNone),           \* 5
    Body("list", 0, "", {}, PyNone),          \* []
    Body("list", 0, "", {"url"}, PyNone),     \* ["url"]
    Body("str", 0, "url", {}, PyNone),        \* "url"
    Body("dict", 0, "", {}, PyNone),          \* {}
    Body("dict", 0, "", {"other"}, PyNone),   \* {"other": ...}
    Body("dict", 0, "", {"url"}, ""),         \* {"url": ""}
    Body("dict", 0, "", {"url"}, PyNone),     \* {"url": null}
    Body("dict", 0, "", {"url"}, "u1") }      \* {"url": "u1"}

\* query strings of /info: value of request.args.get('url')
Queries == {PyNone, "", "u1"}

\* bool(d)
PyTruthy(d) ==
  CASE d.t = "none" -> FALSE
    [] d.t = "int"  -> d.n # 0
    [] d.t = "str"  -> d.s # ""
    [] OTHER        -> d.items # {}

\* 'url' in d : "True", "False" or "TypeError"
PyContainsUrl(d) ==
  CASE d.t = "int"  -> "TypeError"
    [] d.t = "none" -> "TypeError"
    [] d.t = "str"  -> IF d.s = "url" THEN "True" ELSE "False"
    [] OTHER        -> IF "url" \in d.items THEN "True" ELSE "False"

\* d['url'] : the value, or "TypeError" (list and str indices must be integers)
PySubscriptUrl(d) == IF d.t = "dict" THEN d.url ELSE "TypeError"

\* d.get('url') : the value, None if the key is absent, or "AttributeError"
PyGetUrl(d) ==
  IF d.t = "dict" THEN (IF "url" \in d.items THEN d.url ELSE PyNone)
  ELSE "AttributeError"

\* bool(url) for a str or None
UrlTruthy(u) == u \notin {PyNone, ""}

\* the client omitted `url`
UrlMissing(d) == ~(d.t = "dict" /\ "url" \in d.items)
\* the client sent `url` with an empty value
UrlEmpty(d) == d.t = "dict" /\ "url" \in d.items /\ d.url \in {"", PyNone}

\* ---------------------------------------------------------------- paths
TEMP_DIR == "/tmp"
NoPath == [dir |-> "", stem |-> 0, exts |-> <<>>]

\* a mutation: every request gets the same file name
FixedFilename(u) == [stem |-> 0, exts |-> <<"mp3">>]
\* f"{uuid.uuid4()}.mp3" (youtube_converter_server.py)
Filename(u) == [stem |-> u, exts |-> <<"mp3">>]
\* f"{uuid.uuid4()}.mp3" (app.py)
AppFilename(u) == [stem |-> u, exts |-> <<"mp3">>]

\* os.path.join(dir, filename) and f"/tmp/{output_filename}"
Join(dir, fn) == [dir |-> dir, stem |-> fn.stem, exts |-> fn.exts]

\* path.replace('.mp3', '') : removes every occurrence of '.mp3'
ReplaceMp3(p) == [p EXCEPT !.exts = SelectSeq(p.exts, LAMBDA e : e # "mp3")]
\* path + '.mp3'
PlusMp3(p) == [p EXCEPT !.exts = Append(p.exts, "mp3")]

\* the file FFmpegExtractAudio(preferredcodec mp3) leaves for an output
\* template: the template with its extension replaced by mp3
AdapterOutput(tmpl) ==
  IF tmpl.exts = <<>> THEN PlusMp3(tmpl)
  ELSE [tmpl EXCEPT !.exts = Append(SubSeq(tmpl.exts, 1, Len(tmpl.exts) - 1), "mp3")]

\* mimetypes.guess_type on the file name (send_file without mimetype=)
GuessMime(p) ==
  IF p.exts # <<>> /\ p.exts[Len(p.exts)] = "mp3" THEN "audio/mpeg"
  ELSE "application/octet-stream"

\* ------------------------------------------------------------ responses
NoJson == [k \in {} |-> ""]
NoResp == [status |-> 0, kind |-> "none", mimetype |-> "", json |-> NoJson]
ErrorResp(st, msg) ==
  [status |-> st, kind |-> "json", mimetype |-> "application/json",
   json |-> [error |-> msg]]
JsonResp(j) ==
  [status |-> 200, kind |-> "json", mimetype |-> "application/json", json |-> j]
FileResp(mime) ==
  [status |-> 200, kind |-> "file", mimetype |-> mime, json |-> NoJson]
\* what Flask answers when an exception leaves the handler
FlaskErrorPage(st) ==
  [status |-> st, kind |-> "html", mimetype |-> "text/html", json |-> NoJson]

VARIABLES
  pc,                 \* "new", "adapter", "returned", "done"
  req,                \* the request: server, op, body, query
  output_path,        \* local output_path of a convert handler
  actual_output_path, \* local actual_output_path (NoPath: not in locals())
  adapterRes,         \* outcome of the yt-dlp call
  resp,               \* response returned for the request
  escaped,            \* an exception left the handler function
  info,               \* metadata extract_info returned to an /info handler
  events,             \* what the handler and the server did, in order
  files,              \* files in the temporary directory
  issued              \* identifiers uuid4() has produced
vars == <<pc, req, output_path, actual_output_path, adapterRes, resp,
          escaped, info, events, files, issued>>

NoReq == [server |-> "", op |-> "", body |-> Body("none", 0, "", {}, PyNone),
          query |-> PyNone]

Init ==
  /\ pc = [r \in Req |-> "new"]
  /\ req = [r \in Req |-> NoReq]
  /\ output_path = [r \in Req |-> NoPath]
  /\ actual_output_path = [r \in Req |-> NoPath]
  /\ adapterRes = [r \in Req |-> "none"]
  /\ resp = [r \in Req |-> NoResp]
  /\ escaped = [r \in Req |-> FALSE]
  /\ info = [r \in Req |-> NoJson]
  /\ events = [r \in Req |-> <<>>]
  /\ files = {}
  /\ issued = {}
\* requests arrive in the order of their numbers
Arrives(r) == pc[r] = "new" /\ (IF r = 1 THEN TRUE ELSE pc[r - 1] # "new")

Log(r, es) == [events EXCEPT ![r] = events[r] \o es]

\* uuid.uuid4(): an identifier that was not produced before
uuid4 == UuidPool \ issued

\* request.json / request.get_json() for a request without a JSON body:
\* None (Flask < 2.1) or an HTTPException (415, Flask >= 2.1)
GetJsonOutcomes(d) == IF d.t = "none" THEN {"None", "raise"} ELSE {"value"}

\* how ydl.download([url]) can end.  "ok": returns, file written;
\* "ok_nofile": returns, no file at the expected place; "raise_nofile":
\* raises; "raise_partial": raises after writing the output file.
AdapterOutcomes(url) ==
  IF UrlTruthy(url) THEN {"ok", "ok_nofile", "raise_nofile", "raise_partial"}
  ELSE {"raise_nofile"}
Raises(res) == res \in {"raise_nofile", "raise_partial"}
Writes(res) == res \in {"ok", "raise_partial"}

\* ------------------------------------- youtube_converter_server.py /ping
ping(r) ==
  /\ Arrives(r)
  /\ req' = [req EXCEPT ![r] = [NoReq EXCEPT !.server = "yt", !.op = "ping"]]
  /\ resp' = [resp EXCEPT ![r] =
                JsonResp([status |-> "ok", message |-> "Server is running"])]
  /\ events' = Log(r, <<"return">>)
  /\ pc' = [pc EXCEPT ![r] = "returned"]
  /\ UNCHANGED <<output_path, actual_output_path, adapterRes, escaped, info, files, issued>>

\* ---------------------------------- youtube_converter_server.py /convert
\* a mutation: the 'finally' block without its own try/except
CleanupNoCatch(actual, fs, rmOk) ==
  IF actual # NoPath /\ actual \in fs
  THEN IF rmOk THEN [files |-> fs \ {actual}, raised |-> FALSE, log |-> <<"remove">>]
       ELSE [files |-> fs, raised |-> TRUE, log |-> <<"remove_failed">>]
  ELSE [files |-> fs, raised |-> FALSE, log |-> <<>>]
\* the 'finally' block: remove actual_output_path if it is a local and the
\* file exists; a failing os.remove is logged as a warning
Cleanup(actual, fs, rmOk) ==
  IF actual # NoPath /\ actual \in fs
  THEN IF rmOk THEN [files |-> fs \ {actual}, raised |-> FALSE, log |-> <<"remove">>]
       ELSE [files |-> fs, raised |-> FALSE, log |-> <<"remove_failed", "warning">>]
  ELSE [files |-> fs, raised |-> FALSE, log |-> <<>>]

\* `if not data or 'url' not in data` followed by data['url']:
\* "400", "raise" (TypeError, caught by except Exception) or "ok"
YtValidate(d) ==
  IF ~PyTruthy(d) THEN "400"
  ELSE CASE PyContainsUrl(d) = "TypeError" -> "raise"
         [] PyContainsUrl(d) = "False" -> "400"
         [] OTHER -> IF PySubscriptUrl(d) = "TypeError" THEN "raise" ELSE "ok"

\* the handler from its entry to the blocking ydl.download call
convert_youtube_Begin(r) ==
  /\ Arrives(r)
  /\ \E d \in Bodies, gj \in {"None", "raise", "value"} :
       /\ gj \in GetJsonOutcomes(d)
       /\ req' = [req EXCEPT ![r] =
                    [server |-> "yt", op |-> "convert", body |-> d, query |-> PyNone]]
       /\ IF gj = "raise" \/ YtValidate(d) = "raise"
          THEN /\ resp' = [resp EXCEPT ![r] = ErrorResp(500, "exception")]
               /\ events' = Log(r, <<"except", "return">>)
               /\ pc' = [pc EXCEPT ![r] = "returned"]
               /\ UNCHANGED <<output_path, issued>>
          ELSE IF YtValidate(d) = "400"
          THEN /\ resp' = [resp EXCEPT ![r] = ErrorResp(400, "No URL provided")]
               /\ events' = Log(r, <<"return">>)
               /\ pc' = [pc EXCEPT ![r] = "returned"]
               /\ UNCHANGED <<output_path, issued>>
          ELSE \E u \in uuid4 :
               /\ issued' = issued \cup {u}
               /\ output_path' = [output_path EXCEPT ![r] = Join(TEMP_DIR, Filename(u))]
               /\ events' = Log(r, <<"uuid", "adapter">>)
               /\ pc' = [pc EXCEPT ![r] = "adapter"]
               /\ UNCHANGED resp
  \* on the early returns the 'finally' block finds no actual_output_path
  /\ UNCHANGED <<actual_output_path, adapterRes, escaped, info, files>>

\* the handler from the return of ydl.download to its own return
convert_youtube_Finish(r) ==
  /\ pc[r] = "adapter" /\ req[r].server = "yt" /\ req[r].op = "convert"
  /\ \E res \in AdapterOutcomes(req[r].body.url), sendOk \in BOOLEAN, rmOk \in BOOLEAN :
       LET outtmpl == ReplaceMp3(output_path[r])
           fs1 == IF Writes(res) THEN files \cup {AdapterOutput(outtmpl)} ELSE files
           wlog == IF Writes(res) THEN <<"write">> ELSE <<>>
           actual == IF Raises(res) THEN NoPath ELSE PlusMp3(ReplaceMp3(output_path[r]))
           body == IF Raises(res)
                   THEN [ret |-> ErrorResp(500, "DownloadError"), log |-> <<"except">>]
                   ELSE IF actual \notin fs1
                   THEN [ret |-> ErrorResp(500, "Failed to convert video"),
                         log |-> <<"exists">>]
                   ELSE IF sendOk
                   THEN [ret |-> FileResp("audio/mpeg"),
                         log |-> <<"exists", "send_file">>]
                   ELSE [ret |-> ErrorResp(500, "send_file failed"),
                         log |-> <<"exists", "send_file", "send_failed", "except">>]
           fin == Cleanup(actual, fs1, rmOk)
       IN /\ adapterRes' = [adapterRes EXCEPT ![r] = res]
          /\ actual_output_path' = [actual_output_path EXCEPT ![r] = actual]
          /\ files' = fin.files
          /\ IF fin.raised
             THEN /\ resp' = [resp EXCEPT ![r] = FlaskErrorPage(500)]
                  /\ escaped' = [escaped EXCEPT ![r] = TRUE]
                  /\ events' = Log(r, wlog \o body.log \o fin.log \o <<"raise_out">>)
             ELSE /\ resp' = [resp EXCEPT ![r] = body.ret]
                  /\ escaped' = escaped
                  /\ events' = Log(r, wlog \o body.log \o fin.log \o <<"return">>)
  /\ pc' = [pc EXCEPT ![r] = "returned"]
  /\ UNCHANGED <<req, output_path, info, issued>>
\* ------------------------------------- youtube_converter_server.py /info
\* metadata records extract_info can return
MetaKeySets ==
  { Keys, {}, {"id", "title"}, {"id", "formats"}, Keys \cup {"formats"} }
Metas == { [k \in K |-> "v"] : K \in MetaKeySets }

\* a mutation: only the keys the metadata has are copied
ProjectPresent(m) == [k \in Keys \cap DOMAIN m |-> m[k]]
\* video_info = {'id': info.get('id'), ...}
ProjectInfo(m) == [k \in Keys |-> IF k \in DOMAIN m THEN m[k] ELSE PyNone]

\* the handler from its entry to the blocking extract_info call
get_video_info_Begin(r) ==
  /\ Arrives(r)
  /\ \E q \in Queries :
       /\ req' = [req EXCEPT ![r] = [NoReq EXCEPT !.server = "yt", !.op = "info", !.query = q]]
       /\ IF ~UrlTruthy(q)
          THEN /\ resp' = [resp EXCEPT ![r] = ErrorResp(400, "No URL provided")]
               /\ events' = Log(r, <<"return">>)
               /\ pc' = [pc EXCEPT ![r] = "returned"]
          ELSE /\ events' = Log(r, <<"adapter">>)
               /\ pc' = [pc EXCEPT ![r] = "adapter"]
               /\ UNCHANGED resp
  /\ UNCHANGED <<output_path, actual_output_path, adapterRes, escaped, info, files, issued>>

\* the handler from the return of extract_info to its own return
get_video_info_Finish(r) ==
  /\ pc[r] = "adapter" /\ req[r].server = "yt" /\ req[r].op = "info"
  /\ \/ /\ adapterRes' = [adapterRes EXCEPT ![r] = "raise_nofile"]
        /\ resp' = [resp EXCEPT ![r] = ErrorResp(500, "DownloadError")]
        /\ events' = Log(r, <<"except", "return">>)
        /\ UNCHANGED info
     \/ \E m \in Metas :
        /\ adapterRes' = [adapterRes EXCEPT ![r] = "ok_info"]
        /\ info' = [info EXCEPT ![r] = m]
        /\ resp' = [resp EXCEPT ![r] = JsonResp(ProjectInfo(m))]
        /\ events' = Log(r, <<"return">>)
  /\ pc' = [pc EXCEPT ![r] = "returned"]
  /\ UNCHANGED <<req, output_path, actual_output_path, escaped, files, issued>>

\* ------------------------------------------------------ app.py /convert
\* data = request.get_json(); url = data.get('url'); if not url:
\* "400", "raise" (AttributeError, nothing catches it) or "ok"
AppValidate(d) ==
  IF PyGetUrl(d) = "AttributeError" THEN "raise"
  ELSE IF ~UrlTruthy(PyGetUrl(d)) THEN "400" ELSE "ok"

\* the handler from its entry to the blocking ydl.download call
convert_Begin(r) ==
  /\ Arrives(r)
  /\ \E d \in Bodies, gj \in {"None", "raise", "value"} :
       /\ gj \in GetJsonOutcomes(d)
       /\ req' = [req EXCEPT ![r] =
                    [server |-> "app", op |-> "convert", body |-> d, query |-> PyNone]]
       /\ IF gj = "raise" \/ AppValidate(d) = "raise"
          THEN /\ resp' = [resp EXCEPT ![r] =
                             FlaskErrorPage(IF gj = "raise" THEN 415 ELSE 500)]
               /\ escaped' = [escaped EXCEPT ![r] = TRUE]
               /\ events' = Log(r, <<"raise_out">>)
               /\ pc' = [pc EXCEPT ![r] = "returned"]
               /\ UNCHANGED <<output_path, issued>>
          ELSE IF AppValidate(d) = "400"
          THEN /\ resp' = [resp EXCEPT ![r] = ErrorResp(400, "No URL provided")]
               /\ events' = Log(r, <<"return">>)
               /\ pc' = [pc EXCEPT ![r] = "returned"]
               /\ UNCHANGED <<output_path, issued, escaped>>
          ELSE \E u \in uuid4 :
               /\ issued' = issued \cup {u}
               /\ output_path' = [output_path EXCEPT ![r] = Join("/tmp", AppFilename(u))]
               /\ events' = Log(r, <<"uuid", "adapter">>)
               /\ pc' = [pc EXCEPT ![r] = "adapter"]
               /\ UNCHANGED <<resp, escaped>>
  /\ UNCHANGED <<actual_output_path, adapterRes, info, files>>

\* the handler from the return of ydl.download to its own return
convert_Finish(r) ==
  /\ pc[r] = "adapter" /\ req[r].server = "app" /\ req[r].op = "convert"
  /\ \E res \in AdapterOutcomes(req[r].body.url), sendOk \in BOOLEAN :
       LET fs1 == IF Writes(res) THEN files \cup {AdapterOutput(output_path[r])} ELSE files
           wlog == IF Writes(res) THEN <<"write">> ELSE <<>>
       IN /\ adapterRes' = [adapterRes EXCEPT ![r] = res]
          /\ files' = fs1
          /\ IF Raises(res)
             THEN /\ resp' = [resp EXCEPT ![r] = ErrorResp(500, "DownloadError")]
                  /\ events' = Log(r, wlog \o <<"except", "return">>)
                  /\ escaped' = escaped
             ELSE IF output_path[r] \in fs1 /\ sendOk
             THEN /\ resp' = [resp EXCEPT ![r] = FileResp(GuessMime(output_path[r]))]
                  /\ events' = Log(r, wlog \o <<"send_file", "return">>)
                  /\ escaped' = escaped
             ELSE /\ resp' = [resp EXCEPT ![r] = FlaskErrorPage(500)]
                  /\ events' = Log(r, wlog \o <<"send_file", "send_failed", "raise_out">>)
                  /\ escaped' = [escaped EXCEPT ![r] = TRUE]
  /\ pc' = [pc EXCEPT ![r] = "returned"]
  /\ UNCHANGED <<req, output_path, actual_output_path, info, issued>>

\* ------------------------------------------------------- the WSGI server
\* the response the handler returned is sent to the client
Transmit(r) ==
  /\ pc[r] = "returned"
  /\ pc' = [pc EXCEPT ![r] = "done"]
  /\ events' = Log(r, <<"stream">>)
  /\ UNCHANGED <<req, output_path, actual_output_path, adapterRes, resp, escaped,
                 info, files, issued>>

Next ==
  \E r \in Req :
    \/ ping(r)
    \/ convert_youtube_Begin(r)
    \/ convert_youtube_Finish(r)
    \/ get_video_info_Begin(r)
    \/ get_video_info_Finish(r)
    \/ convert_Begin(r)
    \/ convert_Finish(r)
    \/ Transmit(r)

Spec == Init /\ [][Next]_vars

TypeOK ==
  /\ pc \in [Req -> {"new", "adapter", "returned", "done"}]
  /\ escaped \in [Req -> BOOLEAN]
  /\ issued \subseteq UuidPool
  /\ \A r \in Req : resp[r].status \in {0, 200, 400, 415, 500}
\* ================================================================ claims
Returned(r) == pc[r] \in {"returned", "done"}
IsConvert(r) == req[r].op = "convert"
IsInfo(r) == req[r].op = "info"
Has(r, e) == \E i \in DOMAIN events[r] : events[r][i] = e
Count(r, e) == Cardinality({i \in DOMAIN events[r] : events[r][i] = e})
HasErrorJson(r) == resp[r].kind = "json" /\ "error" \in DOMAIN resp[r].json
\* the file the adapter writes for request r
ProducedPath(r) ==
  IF req[r].server = "yt" THEN AdapterOutput(ReplaceMp3(output_path[r]))
  ELSE AdapterOutput(output_path[r])

\* C1: every convert request without `url` (no body, a body that is not a
\* JSON object, an object without the key) and every info request without
\* the `url` parameter is answered 400 with an `error` field, and the
\* adapter is not invoked for it.
C1_MissingUrlIs400 ==
  \A r \in Req :
    ( \/ IsConvert(r) /\ UrlMissing(req[r].body)
      \/ IsInfo(r) /\ req[r].query = PyNone )
    => /\ ~Has(r, "adapter")
       /\ Returned(r) => resp[r].status = 400 /\ HasErrorJson(r)

\* C2: a convert request whose body has `url` with an empty value ("" or
\* null) is answered 400 before a file name is generated or the adapter is
\* invoked; it is never answered 500.
C2_EmptyUrlIs400 ==
  \A r \in Req :
    IsConvert(r) /\ UrlEmpty(req[r].body)
    => /\ ~Has(r, "uuid") /\ ~Has(r, "adapter")
       /\ Returned(r) => resp[r].status = 400

\* C3: a convert request whose adapter call succeeded (and for which neither
\* sending nor deleting the file failed) is answered 200 with a file of an
\* audio MIME type, and once the request has completed its temporary file is
\* no longer in the directory.
C3_SuccessFileGone ==
  \A r \in Req :
    /\ IsConvert(r) /\ adapterRes[r] = "ok"
    /\ ~Has(r, "send_failed") /\ ~Has(r, "remove_failed")
    => /\ Returned(r) => /\ resp[r].status = 200 /\ resp[r].kind = "file"
                         /\ resp[r].mimetype = "audio/mpeg"
       /\ pc[r] = "done" => ProducedPath(r) \notin files

\* C4: when the adapter raises after having written an output file under
\* the generated name, that file has been removed by the time the 500
\* response is returned.
C4_PartialFileRemoved ==
  \A r \in Req :
    IsConvert(r) /\ Returned(r) /\ adapterRes[r] = "raise_partial"
    => resp[r].status = 500 /\ ProducedPath(r) \notin files

\* C5: every request ends with exactly one response of status 200, 400 or
\* 500, every non-200 response has a JSON body with an `error` field, and
\* no exception leaves a handler function.
C5_AllFailuresCaught ==
  \A r \in Req :
    Returned(r)
    => /\ ~escaped[r]
       /\ Count(r, "return") = 1
       /\ resp[r].status \in {200, 400, 500}
       /\ resp[r].status # 200 => HasErrorJson(r)

\* C6: no two convert requests, in any interleaving and in either server,
\* have the same temporary output path, and no request writes, sends or
\* deletes the file of another: the directory holds exactly the files that
\* were written for a request and not removed by that same request.
C6_UniquePaths ==
  /\ \A r1, r2 \in Req :
       r1 # r2 /\ output_path[r1] # NoPath /\ output_path[r2] # NoPath
       => /\ output_path[r1] # output_path[r2]
          /\ ProducedPath(r1) # ProducedPath(r2)
  /\ files = { ProducedPath(r) : r \in {q \in Req : Has(q, "write") /\ ~Has(q, "remove")} }
\* two convert requests are inside the adapter at the same time
C6_Witness ==
  \E r1, r2 \in Req :
    /\ r1 # r2 /\ IsConvert(r1) /\ IsConvert(r2)
    /\ pc[r1] = "adapter" /\ pc[r2] = "adapter"
    /\ req[r1].server # req[r2].server

\* C7: the deletion step for a request's temporary file comes after the
\* transmission of the response of that request, never before it.
C7_DeleteAfterStream ==
  \A r \in Req : \A i \in DOMAIN events[r] :
    events[r][i] \in {"remove", "remove_failed"}
    => \E j \in 1..(i - 1) : events[r][j] = "stream"

\* C8: a failing deletion of the temporary file is logged as a warning and
\* does not reach the client: the response is the one the handler had
\* decided on (200 with the file, or the 500 of a failed send), and no
\* exception leaves the cleanup step.
C8_CleanupFailureHidden ==
  \A r \in Req :
    IsConvert(r) /\ req[r].server = "yt" /\ Has(r, "remove_failed")
    => /\ Returned(r) /\ ~escaped[r] /\ ~Has(r, "raise_out")
       /\ Has(r, "warning") /\ Count(r, "return") = 1
       /\ resp[r] = IF Has(r, "send_failed")
                    THEN ErrorResp(500, "send_file failed")
                    ELSE FileResp("audio/mpeg")
\* a conversion succeeded, the deletion failed, the client got the file
C8_Witness ==
  \E r \in Req :
    /\ IsConvert(r) /\ req[r].server = "yt" /\ pc[r] = "done"
    /\ Has(r, "remove_failed") /\ resp[r].status = 200
    /\ ProducedPath(r) \in files

\* C9: an info request with a non-empty `url` whose metadata extraction
\* does not raise is answered 200 with a JSON object of exactly the keys
\* id, title, uploader, duration, thumbnail; a key absent from the metadata
\* is null; and no step of an info request changes the temporary directory.
C9_InfoResponse ==
  \A r \in Req :
    IsInfo(r) /\ UrlTruthy(req[r].query) /\ adapterRes[r] = "ok_info"
    => /\ Returned(r) /\ resp[r].status = 200 /\ resp[r].kind = "json"
       /\ DOMAIN resp[r].json = Keys
       /\ \A k \in Keys :
            resp[r].json[k] = IF k \in DOMAIN info[r] THEN info[r][k] ELSE PyNone
C9_InfoStep ==
  \A r \in Req : events'[r] # events[r] /\ req'[r].op = "info" => files' = files
C9_InfoProjection == []C9_InfoResponse /\ [][C9_InfoStep]_vars
\* an info request was answered from metadata lacking some of the keys,
\* while a file of a convert request was in the directory
C9_Witness ==
  \E r \in Req :
    /\ IsInfo(r) /\ pc[r] = "done" /\ adapterRes[r] = "ok_info"
    /\ DOMAIN info[r] = {"id", "formats"}
    /\ resp[r].json["title"] = PyNone /\ resp[r].json["id"] = "v"
    /\ files # {}

\* C10: when the adapter returns without raising but the expected output
\* file does not exist, the request is answered 500 with a JSON `error`
\* body, no file is sent, and the request changes nothing in the directory.
C10_FileMissingIs500 ==
  \A r \in Req :
    IsConvert(r) /\ Returned(r) /\ adapterRes[r] = "ok_nofile"
    => /\ resp[r].status = 500 /\ HasErrorJson(r)
       /\ ~Has(r, "send_file") /\ ~Has(r, "write") /\ ~Has(r, "remove")
====
